---- MODULE Spec2Model ----
(***************************************************************************)
(* A model of sensor-exporter (src/sensor-exporter/main.go): the hddtemp  *)
(* protocol parser, the HddCollector that reads the daemon's socket on    *)
(* every scrape, the lm-sensors poller that refreshes the gauge vectors,   *)
(* and the scrapes that gather all registered collectors.                 *)
(*                                                                         *)
(* Text is modelled as a sequence of one-character strings, so that        *)
(* slicing, splitting and prefix tests are computed as the code does.      *)
(***************************************************************************)
EXTENDS Integers, Sequences, FiniteSets, TLC

(***************************************************************************)
(* Bounds of the model.                                                    *)
(***************************************************************************)
\* longest envelope, in items, that the parser is tried on
MaxRecords == 2
\* longest free-form (garbled) text the parser is tried on
MaxShortLen == 3

(***************************************************************************)
(* Text helpers.                                                           *)
(***************************************************************************)
Bar == <<"|">>

Digits == {"0", "1", "2", "3", "4", "5", "6", "7", "8", "9"}

DigitVal(c) ==
    CASE c = "0" -> 0 [] c = "1" -> 1 [] c = "2" -> 2 [] c = "3" -> 3
      [] c = "4" -> 4 [] c = "5" -> 5 [] c = "6" -> 6 [] c = "7" -> 7
      [] c = "8" -> 8 [] c = "9" -> 9

DigitChar(d) ==
    CASE d = 0 -> "0" [] d = 1 -> "1" [] d = 2 -> "2" [] d = 3 -> "3"
      [] d = 4 -> "4" [] d = 5 -> "5" [] d = 6 -> "6" [] d = 7 -> "7"
      [] d = 8 -> "8" [] d = 9 -> "9"

\* strings.Index(s, sep): the first position (1-based) where sep occurs in s,
\* 0 when it does not occur.
Index(s, sep) ==
    LET hits == {i \in 1..(Len(s) - Len(sep) + 1) :
                    SubSeq(s, i, i + Len(sep) - 1) = sep}
    IN  IF hits = {} THEN 0 ELSE CHOOSE i \in hits : \A j \in hits : i <= j

\* strings.Split(s, sep) for a non-empty sep: the pieces between the
\* non-overlapping occurrences of sep taken from the left; always at least
\* one piece (the empty text splits into one empty piece).
RECURSIVE Split(_, _)
Split(s, sep) ==
    LET i == Index(s, sep)
    IN  IF i = 0 THEN <<s>>
        ELSE <<SubSeq(s, 1, i - 1)>> \o Split(SubSeq(s, i + Len(sep), Len(s)), sep)

\* strings.HasPrefix(s, prefix)
HasPrefix(s, prefix) ==
    Len(s) >= Len(prefix) /\ SubSeq(s, 1, Len(prefix)) = prefix

(***************************************************************************)
(* strconv.ParseFloat(temp, 64), on the texts the model builds: an optional*)
(* "-", then decimal digits with at most one "." and at least one digit.   *)
(* (The model's alphabet has no exponent, hexadecimal, underscore, "+",    *)
(* Inf or NaN spellings, the other texts ParseFloat accepts.)  The value   *)
(* is the decimal m / 10^k kept in lowest form as <<m, k>>; the texts are  *)
(* short enough for every such decimal to have its own float64.            *)
(***************************************************************************)
RECURSIVE DigitsValue(_)
DigitsValue(ds) ==
    IF ds = <<>> THEN 0
    ELSE 10 * DigitsValue(SubSeq(ds, 1, Len(ds) - 1)) + DigitVal(ds[Len(ds)])

RECURSIVE Normalize(_)
Normalize(v) ==
    IF v[2] > 0 /\ v[1] % 10 = 0 THEN Normalize(<<v[1] \div 10, v[2] - 1>>) ELSE v

Unsigned(t) == IF Len(t) > 0 /\ t[1] = "-" THEN SubSeq(t, 2, Len(t)) ELSE t

IsFloatText(t) ==
    LET u == Unsigned(t)
    IN  /\ \A i \in 1..Len(u) : u[i] \in Digits \cup {"."}
        /\ Cardinality({i \in 1..Len(u) : u[i] = "."}) <= 1
        /\ \E i \in 1..Len(u) : u[i] \in Digits

FloatValue(t) ==
    LET u    == Unsigned(t)
        dot  == Index(u, <<".">>)
        ip   == IF dot = 0 THEN u ELSE SubSeq(u, 1, dot - 1)
        fp   == IF dot = 0 THEN <<>> ELSE SubSeq(u, dot + 1, Len(u))
        m    == DigitsValue(ip \o fp)
        sign == IF Len(t) > 0 /\ t[1] = "-" THEN -1 ELSE 1
    IN  Normalize(<<sign * m, Len(fp)>>)

\* strconv.ParseFloat: [ok, val]
ParseFloat(t) ==
    IF IsFloatText(t) THEN [ok |-> TRUE, val |-> FloatValue(t)]
    ELSE [ok |-> FALSE, val |-> <<0, 0>>]

(***************************************************************************)
(* The parser.                                                             *)
(***************************************************************************)
NoRecord == [Device |-> <<>>, Id |-> <<>>, TemperatureCelsius |-> <<0, 0>>]

\* parseHddTemp without the test of the unit field (a faulty variant the
\* item property C8 must tell from the code)
parseHddTempAnyUnit(s) ==
    LET pieces == Split(s, Bar)
    IN  IF Len(pieces) # 4
          THEN [err |-> "WrongFieldCount", rec |-> NoRecord]
        ELSE LET f == ParseFloat(pieces[3])
             IN  IF ~f.ok
                   THEN [err |-> "BadNumber", rec |-> NoRecord]
                 ELSE [err |-> "none",
                       rec |-> [Device |-> pieces[1], Id |-> pieces[2],
                                TemperatureCelsius |-> f.val]]

\* parseHddTemp(s): one item "dev|id|temp|unit".  err is "none" or the kind
\* of the error returned; rec is the zero HddTemperature on an error.
parseHddTemp(s) ==
    LET pieces == Split(s, Bar)
    IN  IF Len(pieces) # 4
          THEN [err |-> "WrongFieldCount", rec |-> NoRecord]
        ELSE IF pieces[4] # <<"C">>
          THEN [err |-> "UnsupportedUnit", rec |-> NoRecord]
        ELSE LET f == ParseFloat(pieces[3])
             IN  IF ~f.ok
                   THEN [err |-> "BadNumber", rec |-> NoRecord]
                 ELSE [err |-> "none",
                       rec |-> [Device |-> pieces[1], Id |-> pieces[2],
                                TemperatureCelsius |-> f.val]]

\* the loop putting each record in front of the earlier ones (a faulty
\* variant the round trip C6 must tell from the code)
RECURSIVE parseItemsPrepend(_, _)
parseItemsPrepend(items, acc) ==
    IF items = <<>> THEN [panic |-> FALSE, err |-> "none", recs |-> acc]
    ELSE LET r == parseHddTemp(Head(items))
         IN  IF r.err # "none"
               THEN [panic |-> FALSE, err |-> r.err, recs |-> <<>>]
             ELSE parseItemsPrepend(Tail(items), <<r.rec>> \o acc)

\* the loop returning the records parsed so far along with the error (a
\* faulty variant the all-or-nothing property C9 must tell from the code)
RECURSIVE parseItemsKeepPrefix(_, _)
parseItemsKeepPrefix(items, acc) ==
    IF items = <<>> THEN [panic |-> FALSE, err |-> "none", recs |-> acc]
    ELSE LET r == parseHddTemp(Head(items))
         IN  IF r.err # "none"
               THEN [panic |-> FALSE, err |-> r.err, recs |-> acc]
             ELSE parseItemsKeepPrefix(Tail(items), Append(acc, r.rec))

\* The loop of parseHddTemps over the items: the first item that fails
\* returns (nil, err); otherwise the records are appended in order.
RECURSIVE parseItems(_, _)
parseItems(items, acc) ==
    IF items = <<>> THEN [panic |-> FALSE, err |-> "none", recs |-> acc]
    ELSE LET r == parseHddTemp(Head(items))
         IN  IF r.err # "none"
               THEN [panic |-> FALSE, err |-> r.err, recs |-> <<>>]
             ELSE parseItems(Tail(items), Append(acc, r.rec))

\* parseHddTemps testing only that s is not empty, not its first byte (a
\* faulty variant the envelope property C7 must tell from the code)
parseHddTempsAnyFirstByte(s) ==
    IF Len(s) < 1
      THEN [panic |-> FALSE, err |-> "MalformedEnvelope", recs |-> <<>>]
    ELSE IF Len(s) - 1 < 1
      THEN [panic |-> TRUE, err |-> "none", recs |-> <<>>]
    ELSE parseItems(Split(SubSeq(s, 2, Len(s) - 1), <<"|", "|">>), <<>>)

\* parseHddTemps going no further than the first item (a faulty variant
\* the two-envelope property C18 must tell from the code)
parseHddTempsFirstItem(s) ==
    IF Len(s) < 1 \/ s[1] # "|"
      THEN [panic |-> FALSE, err |-> "MalformedEnvelope", recs |-> <<>>]
    ELSE IF Len(s) - 1 < 1
      THEN [panic |-> TRUE, err |-> "none", recs |-> <<>>]
    ELSE parseItems(<<Head(Split(SubSeq(s, 2, Len(s) - 1), <<"|", "|">>))>>, <<>>)

\* parseHddTemps testing the closing character as well (a faulty variant
\* the last-character property C19 must tell from the code)
parseHddTempsCheckClosing(s) ==
    IF Len(s) < 1 \/ s[1] # "|" \/ s[Len(s)] # "|"
      THEN [panic |-> FALSE, err |-> "MalformedEnvelope", recs |-> <<>>]
    ELSE IF Len(s) - 1 < 1
      THEN [panic |-> TRUE, err |-> "none", recs |-> <<>>]
    ELSE parseItems(Split(SubSeq(s, 2, Len(s) - 1), <<"|", "|">>), <<>>)

\* parseHddTemps(s).  panic is TRUE when the slice expression
\* s[1:len(s)-1] is out of range (len(s) = 1: low bound 1 > high bound 0),
\* which is a run-time panic in Go.
parseHddTemps(s) ==
    IF Len(s) < 1 \/ s[1] # "|"
      THEN [panic |-> FALSE, err |-> "MalformedEnvelope", recs |-> <<>>]
    ELSE IF Len(s) - 1 < 1
      THEN [panic |-> TRUE, err |-> "none", recs |-> <<>>]
    ELSE parseItems(Split(SubSeq(s, 2, Len(s) - 1), <<"|", "|">>), <<>>)

(***************************************************************************)
(* Bounds of the system model.                                             *)
(***************************************************************************)
\* scrapes started over a run (two handlers may be in flight at once)
MaxScrapes == 2
\* segments the hddtemp peer writes on the connection over a run
MaxSegments == 2
\* poll cycles over a run
MaxCycles == 2
\* features the machine's sensor chip has
MaxFeatures == 1
\* kinds of segment the hddtemp peer can write in one run
MaxKinds == 2
\* sensor readings range over 1..MaxValue
MaxValue == 2

Handlers == {1, 2}
Values == 1..MaxValue

(***************************************************************************)
(* The gauge vectors (main.go:20-47) and the features lm-sensors reports.  *)
(***************************************************************************)
Cats == {"fan", "voltage", "power", "temperature"}

FeatureList ==
    << [Name |-> <<"f","a","n","1","_","i","n","p","u","t">>, Label |-> "fan1"],
       [Name |-> <<"t","e","m","p","2","_","i","n","p","u","t">>, Label |-> "temp2"],
       [Name |-> <<"i","n","0","_","i","n","p","u","t">>, Label |-> "in0"],
       [Name |-> <<"p","o","w","e","r","1","_","i","n","p","u","t">>, Label |-> "power1"],
       [Name |-> <<"b","e","e","p","_","e","n","a","b","l","e">>, Label |-> "beep_enable"] >>

ChipName == "chip0"
AdaptorName == "ISA adapter"

\* the label tuple of a feature: {GetLabel(), chipName, adaptorName}
LabelTuple(i) == <<FeatureList[i].Label, ChipName, AdaptorName>>
Tuples == {LabelTuple(i) : i \in 1..Len(FeatureList)}

\* the chain with a final else that writes to the power vector (a faulty
\* variant the classification property C12 must tell from the code)
ClassifyUnmatchedAsPower(name) ==
    IF HasPrefix(name, <<"f","a","n">>) THEN "fan"
    ELSE IF HasPrefix(name, <<"t","e","m","p">>) THEN "temperature"
    ELSE IF HasPrefix(name, <<"i","n">>) THEN "voltage"
    ELSE "power"

\* the if / else-if chain of collectLm: the vector a feature name is
\* written to, "none" when no prefix matches
Classify(name) ==
    IF HasPrefix(name, <<"f","a","n">>) THEN "fan"
    ELSE IF HasPrefix(name, <<"t","e","m","p">>) THEN "temperature"
    ELSE IF HasPrefix(name, <<"i","n">>) THEN "voltage"
    ELSE IF HasPrefix(name, <<"p","o","w","e","r">>) THEN "power"
    ELSE "none"

RECURSIVE SortedSeq(_)
SortedSeq(S) ==
    IF S = {} THEN <<>>
    ELSE LET m == CHOOSE x \in S : \A y \in S : x <= y
         IN  <<m>> \o SortedSeq(S \ {m})

(***************************************************************************)
(* What the hddtemp peer may write: whole envelopes, a lone delimiter, an  *)
(* envelope with a Fahrenheit item, and a truncated envelope.              *)
(***************************************************************************)
Item(dev, id, temp, unit) == dev \o Bar \o id \o Bar \o temp \o Bar \o unit

EnvA == Bar \o Item(<<"a">>, <<"i">>, <<"4", "5">>, <<"C">>) \o Bar
EnvB == Bar \o Item(<<"b">>, <<"j">>, <<"4", ".", "5">>, <<"C">>) \o Bar
EnvF == Bar \o Item(<<"a">>, <<"i">>, <<"4", "5">>, <<"F">>) \o Bar
EnvCut == Bar \o <<"a">> \o Bar \o <<"i">> \o Bar \o <<"4">>

Segments == {EnvA, EnvB, EnvF, EnvCut, Bar}

(***************************************************************************)
(* State.                                                                  *)
(***************************************************************************)
VARIABLES
    mainPc,     \* main(): "start" before hddcollector.Init(), then "serving"
    conn,       \* h.conn: "nil" or "tcp"
    peer,       \* the daemon's end: "none", "open", "closed" (EOF), "idle"
                \* (open, nothing more to come), "reset"
    wire,       \* segments written by the peer and not yet read
    nsent,      \* segments the peer has written
    buf,        \* h.buf: the bytes.Buffer contents
    crashed,    \* the process died of an unrecovered panic
    st,         \* per handler: "idle", "active", "ok", "failed"
    hpc,        \* per handler, HddCollector.Collect: "off", "copy", "read",
                \* "parse", "done"
    off,        \* per handler, len(h.buf) seen by the pending Read
    got,        \* per handler, the bytes this Collect call received
    emitted,    \* per handler, the records this Collect call sent on ch
    pend,       \* per handler, the gauge vectors not yet collected
    snap,       \* per handler, the gauge values collected so far
    nscrapes,   \* scrapes started
    hw,         \* the features the machine's chip has (indices of FeatureList)
    segs,       \* the segments the hddtemp peer can write
    pollPc,     \* collectLm: "off", "chips" (loop top), "features", "sleep"
    pollTodo,   \* features of this cycle's enumeration not yet written
    ncycles,    \* poll cycles completed
    cache,      \* per gauge vector: label tuple -> value
    polled,     \* history: the readings the poller has taken, in order
    input,      \* parser check: the text given to parseHddTemps
    fromRecs,   \* parser check: input was serialised from records
    srcRecs,    \* parser check: the records input was serialised from
    result      \* parser check: the call made on input and what it returned

hddVars == <<conn, peer, wire, nsent, buf, segs>>
scrapeVars == <<st, hpc, off, got, emitted, pend, snap, nscrapes>>
pollVars == <<hw, pollPc, pollTodo, ncycles, cache, polled>>
parseVars == <<input, fromRecs, srcRecs, result>>
vars == <<mainPc, crashed, hddVars, scrapeVars, pollVars, parseVars>>

NotCalled == [call |-> "none", panic |-> FALSE, err |-> "none", recs |-> <<>>]

EmptyCaches == [c \in Cats |-> <<>>]

\* Put keeping the value a key already has (a faulty variant the overwrite
\* property C11 must tell from the code)
PutKeepFirst(m, k, v) ==
    IF k \in DOMAIN m THEN m
    ELSE [x \in DOMAIN m \cup {k} |-> IF x = k THEN v ELSE m[x]]

\* m with key k set to v (GaugeVec.WithLabelValues(...).Set(v))
Put(m, k, v) == [x \in DOMAIN m \cup {k} |-> IF x = k THEN v ELSE m[x]]

SystemInit ==
    /\ mainPc = "start"
    /\ conn = "nil"
    /\ peer = "none"
    /\ wire = <<>>
    /\ nsent = 0
    /\ buf = <<>>
    /\ crashed = FALSE
    /\ st = [s \in Handlers |-> "idle"]
    /\ hpc = [s \in Handlers |-> "off"]
    /\ off = [s \in Handlers |-> 0]
    /\ got = [s \in Handlers |-> <<>>]
    /\ emitted = [s \in Handlers |-> <<>>]
    /\ pend = [s \in Handlers |-> {}]
    /\ snap = [s \in Handlers |-> EmptyCaches]
    /\ nscrapes = 0
    /\ pollPc = "off"
    /\ pollTodo = <<>>
    /\ ncycles = 0
    /\ cache = EmptyCaches
    /\ polled = <<>>

ParseIdle ==
    /\ input = <<>>
    /\ fromRecs = FALSE
    /\ srcRecs = <<>>
    /\ result = NotCalled

\* A run has the machine's sensors or the peer's traffic to deal with: the
\* chip has up to MaxFeatures features and the peer then only closes or
\* breaks the connection, or the chip has none and the peer writes up to
\* MaxKinds kinds of segment.
Init ==
    /\ SystemInit
    /\ \E h \in SUBSET (1..Len(FeatureList)), g \in SUBSET Segments :
          /\ Cardinality(h) <= MaxFeatures
          /\ Cardinality(g) <= MaxKinds
          /\ h = {} \/ g = {}
          /\ hw = h
          /\ segs = g
    /\ ParseIdle

(***************************************************************************)
(* main(): NewHddCollector, hddcollector.Init() (the error is only logged),*)
(* MustRegister, go collectLm(), then serving.  net.Dial succeeds or not.  *)
(***************************************************************************)
Main(dialOk) ==
    /\ mainPc = "start"
    /\ mainPc' = "serving"
    /\ conn' = IF dialOk THEN "tcp" ELSE "nil"
    /\ peer' = IF dialOk THEN "open" ELSE "none"
    /\ pollPc' = "chips"
    /\ UNCHANGED <<wire, nsent, buf, segs, crashed, scrapeVars, hw, pollTodo, ncycles,
                   cache, polled, parseVars>>

Running == mainPc = "serving" /\ ~crashed

(***************************************************************************)
(* The hddtemp peer.                                                       *)
(***************************************************************************)
DaemonSend(seg) ==
    /\ Running
    /\ peer = "open"
    /\ nsent < MaxSegments
    /\ seg \in segs
    /\ wire' = Append(wire, seg)
    /\ nsent' = nsent + 1
    /\ UNCHANGED <<mainPc, conn, peer, buf, segs, crashed, scrapeVars, pollVars, parseVars>>

\* the peer closes its end after what it wrote: the reader gets EOF
DaemonClose ==
    /\ Running
    /\ peer = "open"
    /\ peer' = "closed"
    /\ UNCHANGED <<mainPc, conn, wire, nsent, buf, segs, crashed, scrapeVars, pollVars,
                   parseVars>>

\* the peer has written what it had to and leaves the connection open and
\* idle from now on
DaemonIdle ==
    /\ Running
    /\ peer = "open"
    /\ peer' = "idle"
    /\ UNCHANGED <<mainPc, conn, wire, nsent, buf, segs, crashed, scrapeVars, pollVars,
                   parseVars>>

\* the connection breaks: reads fail from now on
DaemonReset ==
    /\ Running
    /\ peer = "open"
    /\ peer' = "reset"
    /\ wire' = <<>>
    /\ UNCHANGED <<mainPc, conn, nsent, buf, segs, crashed, scrapeVars, pollVars, parseVars>>

(***************************************************************************)
(* collectLm(): the poller.                                                *)
(***************************************************************************)
\* an enumeration that drops the entries of the features it does not find
\* (a faulty variant the growth property C20 must tell from the code)
PollEnumerateForget ==
    /\ Running
    /\ pollPc = "chips"
    /\ \E found \in SUBSET hw :
          /\ pollTodo' = SortedSeq(found)
          /\ cache' = [c \in Cats |->
                          [t \in {x \in DOMAIN cache[c] :
                                     \E i \in found : LabelTuple(i) = x} |->
                              cache[c][t]]]
    /\ pollPc' = "features"
    /\ UNCHANGED <<mainPc, crashed, hddVars, scrapeVars, hw, ncycles, polled,
                   parseVars>>

\* top of the for loop: GetDetectedChips() / GetFeatures() report some of
\* the machine's features
PollEnumerate ==
    /\ Running
    /\ pollPc = "chips"
    /\ \E found \in SUBSET hw : pollTodo' = SortedSeq(found)
    /\ pollPc' = "features"
    /\ UNCHANGED <<mainPc, crashed, hddVars, scrapeVars, hw, ncycles, cache, polled,
                   parseVars>>

\* one iteration of the inner loop: the vector chosen by the prefix of the
\* feature's name gets feature.GetValue() under the feature's label tuple
PollFeature(v) ==
    /\ Running
    /\ pollPc = "features"
    /\ pollTodo # <<>>
    /\ LET i == Head(pollTodo)
           c == Classify(FeatureList[i].Name)
       IN  cache' = IF c = "none" THEN cache
                    ELSE [cache EXCEPT ![c] = Put(@, LabelTuple(i), v)]
    /\ polled' = Append(polled, [f |-> Head(pollTodo), v |-> v, cycle |-> ncycles + 1])
    /\ pollTodo' = Tail(pollTodo)
    /\ UNCHANGED <<mainPc, crashed, hddVars, scrapeVars, hw, pollPc, ncycles, parseVars>>

\* time.Sleep(1 * time.Second)
PollSleep ==
    /\ Running
    /\ pollPc = "features"
    /\ pollTodo = <<>>
    /\ pollPc' = "sleep"
    /\ ncycles' = ncycles + 1
    /\ UNCHANGED <<mainPc, crashed, hddVars, scrapeVars, hw, pollTodo, cache, polled,
                   parseVars>>

\* the sleep ends and the loop goes round
PollWake ==
    /\ Running
    /\ pollPc = "sleep"
    /\ ncycles < MaxCycles
    /\ pollPc' = "chips"
    /\ UNCHANGED <<mainPc, crashed, hddVars, scrapeVars, hw, pollTodo, ncycles, cache,
                   polled, parseVars>>

(***************************************************************************)
(* A scrape: the registry runs every registered collector, the four gauge  *)
(* vectors (registered in init()) and the HddCollector (registered in      *)
(* main()), each on its own goroutine, and answers when all have returned. *)
(***************************************************************************)
StartScrape(s) ==
    /\ Running
    /\ st[s] \in {"idle", "ok", "failed"}
    /\ \A r \in Handlers : r < s => st[r] = "active"
    /\ nscrapes < MaxScrapes
    /\ nscrapes' = nscrapes + 1
    /\ st' = [st EXCEPT ![s] = "active"]
    /\ hpc' = [hpc EXCEPT ![s] = "copy"]
    /\ off' = [off EXCEPT ![s] = 0]
    /\ got' = [got EXCEPT ![s] = <<>>]
    /\ emitted' = [emitted EXCEPT ![s] = <<>>]
    /\ pend' = [pend EXCEPT ![s] = Cats]
    /\ snap' = [snap EXCEPT ![s] = EmptyCaches]
    /\ UNCHANGED <<mainPc, crashed, hddVars, pollVars, parseVars>>

\* The gauge vectors in the order init() registers them; main() registers
\* the HddCollector after them.  The collectors of one scrape touch
\* disjoint state, so the model runs them one after the other in that
\* order; the steps of a scrape interleave freely with the poller, with the
\* peer and with the other scrape.
GaugeOrder == <<"fan", "voltage", "power", "temperature">>

NextGauge(p) ==
    GaugeOrder[CHOOSE i \in 1..Len(GaugeOrder) :
                  /\ GaugeOrder[i] \in p
                  /\ \A j \in 1..(i - 1) : GaugeOrder[j] \notin p]

\* a Collect that empties the vector once its entries are taken (a faulty
\* variant the frame property C13 must tell from the code)
CollectGaugeReset(s, c) ==
    /\ Running
    /\ st[s] = "active"
    /\ pend[s] # {}
    /\ c = NextGauge(pend[s])
    /\ snap' = [snap EXCEPT ![s][c] = cache[c]]
    /\ pend' = [pend EXCEPT ![s] = @ \ {c}]
    /\ cache' = [cache EXCEPT ![c] = <<>>]
    /\ UNCHANGED <<mainPc, crashed, hddVars, st, hpc, off, got, emitted, nscrapes,
                   hw, pollPc, pollTodo, ncycles, polled, parseVars>>

\* a Collect that waits for the first poll cycle to be over (a faulty
\* variant the non-blocking property C14 must tell from the code)
CollectGaugeAfterPoll(s, c) ==
    /\ Running
    /\ st[s] = "active"
    /\ pend[s] # {}
    /\ c = NextGauge(pend[s])
    /\ ncycles >= 1
    /\ snap' = [snap EXCEPT ![s][c] = cache[c]]
    /\ pend' = [pend EXCEPT ![s] = @ \ {c}]
    /\ UNCHANGED <<mainPc, crashed, hddVars, st, hpc, off, got, emitted, nscrapes,
                   pollVars, parseVars>>

\* one gauge vector's Collect: its current entries
CollectGauge(s, c) ==
    /\ Running
    /\ st[s] = "active"
    /\ pend[s] # {}
    /\ c = NextGauge(pend[s])
    /\ snap' = [snap EXCEPT ![s][c] = cache[c]]
    /\ pend' = [pend EXCEPT ![s] = @ \ {c}]
    /\ UNCHANGED <<mainPc, crashed, hddVars, st, hpc, off, got, emitted, nscrapes,
                   pollVars, parseVars>>

(***************************************************************************)
(* HddCollector.Collect.  readTempsFromConn is io.Copy(&h.buf, h.conn),    *)
(* that is h.buf.ReadFrom(h.conn): a loop of                               *)
(*     i := len(b.buf); m, e := r.Read(b.buf[i:cap]); b.buf = b.buf[:i+m]  *)
(* until Read returns io.EOF (io.Copy then returns nil) or another error.  *)
(* Nothing locks the collector, so the steps of two handlers interleave.   *)
(***************************************************************************)
\* the scrape has reached the HddCollector
HddTurn(s) == st[s] = "active" /\ pend[s] = {}

\* the loop top: the buffer length is taken and Read is called
HddReadCall(s) ==
    /\ Running
    /\ HddTurn(s)
    /\ hpc[s] = "copy"
    /\ conn # "nil"
    /\ off' = [off EXCEPT ![s] = Len(buf)]
    /\ hpc' = [hpc EXCEPT ![s] = "read"]
    /\ UNCHANGED <<mainPc, crashed, hddVars, st, got, emitted, pend, snap, nscrapes,
                   pollVars, parseVars>>

\* Read returns the next segment: it lands at the offset taken at the call
\* and the buffer is resliced to end after it
HddReadData(s) ==
    /\ Running
    /\ HddTurn(s)
    /\ hpc[s] = "read"
    /\ peer # "reset"
    /\ wire # <<>>
    /\ buf' = SubSeq(buf, 1, off[s]) \o Head(wire)
    /\ wire' = Tail(wire)
    /\ got' = [got EXCEPT ![s] = @ \o Head(wire)]
    /\ hpc' = [hpc EXCEPT ![s] = "copy"]
    /\ UNCHANGED <<mainPc, crashed, conn, peer, nsent, segs, st, off, emitted, pend,
                   snap, nscrapes, pollVars, parseVars>>

\* Read returns io.EOF: io.Copy returns nil
HddReadEOF(s) ==
    /\ Running
    /\ HddTurn(s)
    /\ hpc[s] = "read"
    /\ peer = "closed"
    /\ wire = <<>>
    /\ hpc' = [hpc EXCEPT ![s] = "parse"]
    /\ UNCHANGED <<mainPc, crashed, hddVars, st, off, got, emitted, pend, snap,
                   nscrapes, pollVars, parseVars>>

\* a Read error answered by dialling again (a faulty variant the
\* connection property C15 must tell from the code)
HddReadErrorRedial(s) ==
    /\ Running
    /\ HddTurn(s)
    /\ hpc[s] = "read"
    /\ peer = "reset"
    /\ hpc' = [hpc EXCEPT ![s] = "done"]
    /\ conn' = "tcp"
    /\ peer' = "open"
    /\ UNCHANGED <<mainPc, crashed, wire, nsent, buf, segs, st, off, got, emitted,
                   pend, snap, nscrapes, pollVars, parseVars>>

\* Read fails: readTempsFromConn returns the error, Collect logs it and
\* returns without sending anything.  The socket gives a pending error
\* once (a connection reset is followed by end of file) or on every Read.
HddReadError(s) ==
    /\ Running
    /\ HddTurn(s)
    /\ hpc[s] = "read"
    /\ peer = "reset"
    /\ hpc' = [hpc EXCEPT ![s] = "done"]
    /\ peer' \in {"reset", "closed"}
    /\ UNCHANGED <<mainPc, crashed, conn, wire, nsent, buf, segs, st, off, got,
                   emitted, pend, snap, nscrapes, pollVars, parseVars>>

\* What the rest of Collect does with the text h.buf.String(): a panic out
\* of parseHddTemps, nothing sent on a parse error, else one metric per
\* record in order.
CollectOutcome(text) ==
    LET r == parseHddTemps(text)
    IN  IF r.panic THEN [panic |-> TRUE, recs |-> <<>>]
        ELSE IF r.err # "none" THEN [panic |-> FALSE, recs |-> <<>>]
        ELSE [panic |-> FALSE, recs |-> r.recs]

\* h.buf.String(), parseHddTemps, and the sends on ch
HddParseSend(s) ==
    /\ Running
    /\ HddTurn(s)
    /\ hpc[s] = "parse"
    /\ ~CollectOutcome(buf).panic
    /\ emitted' = [emitted EXCEPT ![s] = CollectOutcome(buf).recs]
    /\ hpc' = [hpc EXCEPT ![s] = "done"]
    /\ UNCHANGED <<mainPc, crashed, hddVars, st, off, got, pend, snap, nscrapes,
                   pollVars, parseVars>>

\* Collect panics: in h.buf.ReadFrom when h.conn is nil (Init failed, the
\* Read call is on a nil interface), or in parseHddTemps on the slice.
Panics(s) ==
    /\ HddTurn(s)
    /\ \/ hpc[s] = "copy" /\ conn = "nil"
       \/ hpc[s] = "parse" /\ CollectOutcome(buf).panic

\* A panic that unwinds a goroutine nobody recovers on ends the process ...
PanicCrash(s) ==
    /\ Running
    /\ Panics(s)
    /\ crashed' = TRUE
    /\ st' = [st EXCEPT ![s] = "failed"]
    /\ hpc' = [hpc EXCEPT ![s] = "off"]
    /\ UNCHANGED <<mainPc, hddVars, off, got, emitted, pend, snap, nscrapes, pollVars,
                   parseVars>>

\* ... and one recovered by the serving layer aborts that request only.
PanicAbort(s) ==
    /\ Running
    /\ Panics(s)
    /\ st' = [st EXCEPT ![s] = "failed"]
    /\ hpc' = [hpc EXCEPT ![s] = "off"]
    /\ UNCHANGED <<mainPc, crashed, hddVars, off, got, emitted, pend, snap, nscrapes,
                   pollVars, parseVars>>

\* every collector has returned: the response is written
Respond(s) ==
    /\ Running
    /\ HddTurn(s)
    /\ hpc[s] = "done"
    /\ st' = [st EXCEPT ![s] = "ok"]
    /\ UNCHANGED <<mainPc, crashed, hddVars, hpc, off, got, emitted, pend, snap,
                   nscrapes, pollVars, parseVars>>

(***************************************************************************)
(* The parser and Collect on texts of every shape: envelopes serialised    *)
(* from records, envelopes put together from good and bad items with good  *)
(* and bad first and last characters, and all short texts.                 *)
(***************************************************************************)
SeqsUpTo(S, n) == UNION {[1..k -> S] : k \in 0..n}

RECURSIVE NatDigits(_)
NatDigits(n) ==
    IF n < 10 THEN <<DigitChar(n)>>
    ELSE NatDigits(n \div 10) \o <<DigitChar(n % 10)>>

RECURSIVE PadLeft(_, _)
PadLeft(ds, n) == IF Len(ds) >= n THEN ds ELSE PadLeft(<<"0">> \o ds, n)

\* the shortest decimal text of the value m / 10^k
FormatFloat(v) ==
    LET m  == IF v[1] < 0 THEN 0 - v[1] ELSE v[1]
        ds == PadLeft(NatDigits(m), v[2] + 1)
        ip == SubSeq(ds, 1, Len(ds) - v[2])
        fp == SubSeq(ds, Len(ds) - v[2] + 1, Len(ds))
    IN  (IF v[1] < 0 THEN <<"-">> ELSE <<>>) \o ip
          \o (IF v[2] > 0 THEN <<".">> \o fp ELSE <<>>)

\* the envelope |dev|id|temp|C||dev|id|temp|C|...| of a sequence of records
RECURSIVE Serialize(_)
Serialize(recs) ==
    IF recs = <<>> THEN <<>>
    ELSE Bar \o Item(Head(recs).Device, Head(recs).Id,
                     FormatFloat(Head(recs).TemperatureCelsius), <<"C">>)
             \o Bar \o Serialize(Tail(recs))

RecordSet ==
    [Device : {<<>>, <<"a">>, <<"b">>, <<"a", "|">>},
     Id : {<<>>, <<"i">>, <<"|", "i">>},
     TemperatureCelsius : {<<45, 0>>, <<45, 1>>, <<-5, 1>>}]

RECURSIVE Join(_, _)
Join(items, sep) ==
    IF items = <<>> THEN <<>>
    ELSE IF Len(items) = 1 THEN items[1]
    ELSE items[1] \o sep \o Join(Tail(items), sep)

TextItems ==
    {Item(<<"a">>, <<"i">>, temp, unit) :
        temp \in {<<"4", "5">>, <<"x">>, <<>>}, unit \in {<<"C">>, <<"F">>, <<>>}}
      \cup {<<>>,
            <<"a">> \o Bar \o <<"i">> \o Bar \o <<"4", "5">>,
            Item(<<"a">>, <<"i">>, <<"4", "5">>, <<"C">>) \o Bar \o <<"C">>}

Ends == {<<>>, Bar, <<"x">>}

EnvelopeTexts ==
    {first \o Join(items, <<"|", "|">>) \o last :
        first \in Ends, last \in Ends, items \in SeqsUpTo(TextItems, MaxRecords)}

ShortTexts == SeqsUpTo({"|", "C", "4", "x"}, MaxShortLen)

\* two messages of the peer, each an envelope of 1..MaxRecords records,
\* one after the other as the buffer holds them
PairRecords ==
    [Device : {<<>>, <<"a">>},
     Id : {<<"i">>},
     TemperatureCelsius : {<<45, 1>>}]

BackToBack ==
    {Serialize(r1) \o Serialize(r2) :
        r1 \in SeqsUpTo(PairRecords, MaxRecords) \ {<<>>},
        r2 \in SeqsUpTo(PairRecords, MaxRecords) \ {<<>>}}

InitParse ==
    /\ SystemInit
    /\ hw = {}
    /\ segs = {}
    /\ result = NotCalled
    /\ \/ /\ fromRecs = TRUE
          /\ srcRecs \in SeqsUpTo(RecordSet, MaxRecords)
          /\ input = Serialize(srcRecs)
       \/ /\ fromRecs = FALSE
          /\ srcRecs = <<>>
          /\ input \in EnvelopeTexts \cup ShortTexts \cup BackToBack

\* parseHddTemps(input)
CallParseHddTemps ==
    /\ result = NotCalled
    /\ LET r == parseHddTemps(input)
       IN  result' = [call |-> "parseHddTemps", panic |-> r.panic, err |-> r.err,
                      recs |-> r.recs]
    /\ UNCHANGED <<mainPc, crashed, hddVars, scrapeVars, pollVars, input, fromRecs,
                   srcRecs>>

\* parseHddTemp(input)
CallParseHddTemp ==
    /\ result = NotCalled
    /\ LET r == parseHddTemp(input)
       IN  result' = [call |-> "parseHddTemp", panic |-> FALSE, err |-> r.err,
                      recs |-> IF r.err = "none" THEN <<r.rec>> ELSE <<>>]
    /\ UNCHANGED <<mainPc, crashed, hddVars, scrapeVars, pollVars, input, fromRecs,
                   srcRecs>>

\* Collect with input as the buffer's text: what it sends on ch
CallCollect ==
    /\ result = NotCalled
    /\ LET r == CollectOutcome(input)
       IN  result' = [call |-> "Collect", panic |-> r.panic, err |-> "none",
                      recs |-> r.recs]
    /\ UNCHANGED <<mainPc, crashed, hddVars, scrapeVars, pollVars, input, fromRecs,
                   srcRecs>>

NextParse ==
    \/ CallParseHddTemps
    \/ CallParseHddTemp
    \/ CallCollect

SpecParse == InitParse /\ [][NextParse]_vars

Next ==
    \/ \E ok \in BOOLEAN : Main(ok)
    \/ \E seg \in Segments : DaemonSend(seg)
    \/ DaemonClose
    \/ DaemonIdle
    \/ DaemonReset
    \/ PollEnumerate
    \/ \E v \in Values : PollFeature(v)
    \/ PollSleep
    \/ PollWake
    \/ \E s \in Handlers :
         \/ StartScrape(s)
         \/ \E c \in Cats : CollectGauge(s, c)
         \/ HddReadCall(s)
         \/ HddReadData(s)
         \/ HddReadEOF(s)
         \/ HddReadError(s)
         \/ HddParseSend(s)
         \/ PanicCrash(s)
         \/ PanicAbort(s)
         \/ Respond(s)

Spec == Init /\ [][Next]_vars

\* A run where the machine's chip has the temperature feature and the peer
\* writes envelopes too, a whole one or one with a Fahrenheit item: the
\* poller's writes interleave with scrapes that send records and with
\* scrapes that fail.
InitMixed ==
    /\ SystemInit
    /\ hw = {2}
    /\ segs \in {{EnvA}, {EnvF}}
    /\ ParseIdle

SpecMixed == InitMixed /\ [][Next]_vars

\* The steps of the poller's goroutine and of one scrape's goroutines.  The
\* Go scheduler runs every goroutine that can run; when requests arrive and
\* what the peer does are up to the environment.
PollStep ==
    \/ PollEnumerate
    \/ \E v \in Values : PollFeature(v)
    \/ PollSleep
    \/ PollWake

HandlerStep(s) ==
    \/ \E c \in Cats : CollectGauge(s, c)
    \/ HddReadCall(s)
    \/ HddReadData(s)
    \/ HddReadEOF(s)
    \/ HddReadError(s)
    \/ HddParseSend(s)
    \/ PanicCrash(s)
    \/ PanicAbort(s)
    \/ Respond(s)

FairSpec ==
    /\ Spec
    /\ WF_vars(PollStep)
    /\ \A s \in Handlers : WF_vars(HandlerStep(s))

(***************************************************************************)
(* Properties of the parser, checked under SpecParse.                      *)
(***************************************************************************)
HasBar(t) == \E i \in 1..Len(t) : t[i] = "|"

DistinctDevices(recs) ==
    \A i, j \in 1..Len(recs) : i # j => recs[i].Device # recs[j].Device

\* the items of an envelope text that begins with the delimiter and is at
\* least two characters long
ItemsOf(text) == Split(SubSeq(text, 2, Len(text) - 1), <<"|", "|">>)

HasItems(text) == Len(text) >= 2 /\ text[1] = "|"

\* C6 as stated: every sequence of N records with distinct devices,
\* serialised as an envelope, parses without error to exactly those N
\* records in order.
C6_RoundTripAnyRecords ==
    (result.call = "parseHddTemps" /\ fromRecs /\ DistinctDevices(srcRecs))
        => (~result.panic /\ result.err = "none" /\ result.recs = srcRecs)

\* the records a round trip preserves: at least one, no delimiter inside a
\* device or id, and no empty id
Serialisable(recs) ==
    /\ Len(recs) >= 1
    /\ \A i \in 1..Len(recs) :
          /\ ~HasBar(recs[i].Device)
          /\ ~HasBar(recs[i].Id)
          /\ recs[i].Id # <<>>

\* C6 amended: every sequence of N >= 1 records with distinct devices, no
\* '|' in a device or id and no empty id, serialised as an envelope, parses
\* without error to exactly those N records, in order, with the original
\* device, id and temperature.
C6_RoundTrip ==
    (result.call = "parseHddTemps" /\ fromRecs /\ DistinctDevices(srcRecs)
        /\ Serialisable(srcRecs))
        => (~result.panic /\ result.err = "none" /\ result.recs = srcRecs)

\* two records with different fields, the first with an empty device and a
\* negative fractional temperature, have been parsed back
C6_Witness ==
    /\ result.call = "parseHddTemps"
    /\ fromRecs
    /\ Len(srcRecs) = 2
    /\ DistinctDevices(srcRecs)
    /\ Serialisable(srcRecs)
    /\ srcRecs[1].Device = <<>>
    /\ srcRecs[1].TemperatureCelsius = <<-5, 1>>
    /\ srcRecs[2].TemperatureCelsius = <<45, 0>>
    /\ result.recs = srcRecs

\* C7: parseHddTemps fails with the malformed-envelope error, and returns
\* no records, on every input that does not begin with '|', the empty input
\* included.
C7_MalformedEnvelope ==
    (result.call = "parseHddTemps" /\ (input = <<>> \/ input[1] # "|"))
        => (~result.panic /\ result.err = "MalformedEnvelope" /\ result.recs = <<>>)

\* an input without the leading delimiter whose remainder is a well-formed
\* item has been rejected
C7_Witness ==
    /\ result.call = "parseHddTemps"
    /\ input = <<"x">> \o Item(<<"a">>, <<"i">>, <<"4", "5">>, <<"C">>) \o Bar
    /\ result.err = "MalformedEnvelope"

\* the fields of an item, counted and cut at the delimiters
BarsAt(t) == {i \in 1..Len(t) : t[i] = "|"}
FieldCount(t) == Cardinality(BarsAt(t)) + 1
LastBar(t) == CHOOSE i \in BarsAt(t) : \A j \in BarsAt(t) : j <= i
UnitField(t) == SubSeq(t, LastBar(t) + 1, Len(t))
TempField(t) ==
    LET prev == CHOOSE i \in BarsAt(t) \ {LastBar(t)} :
                    \A j \in BarsAt(t) \ {LastBar(t)} : j <= i
    IN  SubSeq(t, prev + 1, LastBar(t) - 1)

\* C8: parseHddTemp accepts an item exactly when it has 4 fields, the 4th
\* is "C" and the 3rd is a number; it rejects another field count as
\* WrongFieldCount, else another unit as UnsupportedUnit, else a
\* non-numeric temperature as BadNumber.
C8_ItemAccepted ==
    result.call = "parseHddTemp" =>
        /\ (result.err = "none") <=>
              (/\ FieldCount(input) = 4
               /\ UnitField(input) = <<"C">>
               /\ IsFloatText(TempField(input)))
        /\ FieldCount(input) # 4 => result.err = "WrongFieldCount"
        /\ (FieldCount(input) = 4 /\ UnitField(input) # <<"C">>)
              => result.err = "UnsupportedUnit"
        /\ (FieldCount(input) = 4 /\ UnitField(input) = <<"C">>
              /\ ~IsFloatText(TempField(input)))
              => result.err = "BadNumber"

\* an item with four fields and unit "F" has been rejected as UnsupportedUnit
C8_Witness ==
    /\ result.call = "parseHddTemp"
    /\ input = Item(<<"a">>, <<"i">>, <<"4", "5">>, <<"F">>)
    /\ result.err = "UnsupportedUnit"

SomeItemMalformed(text) ==
    \E i \in 1..Len(ItemsOf(text)) : parseHddTemp(ItemsOf(text)[i]).err # "none"

\* C9: parsing is all-or-nothing: an error comes with no records, an
\* envelope with a malformed item gives an error also when the items before
\* it are valid, and Collect over such a text sends nothing.
C9_AllOrNothing ==
    /\ result.call = "parseHddTemps" =>
          /\ result.err # "none" => result.recs = <<>>
          /\ (HasItems(input) /\ SomeItemMalformed(input)) => result.err # "none"
    /\ (result.call = "Collect" /\ HasItems(input) /\ SomeItemMalformed(input))
          => result.recs = <<>>

\* Collect has run on an envelope whose first item is valid and whose
\* second is not
C9_Witness ==
    /\ result.call = "Collect"
    /\ HasItems(input)
    /\ Len(ItemsOf(input)) = 2
    /\ parseHddTemp(ItemsOf(input)[1]).err = "none"
    /\ parseHddTemp(ItemsOf(input)[2]).err = "UnsupportedUnit"
    /\ result.recs = <<>>

\* C2 as stated: on every buffer content Collect ends normally, and it
\* sends no record unless the whole content parses.
C2_CollectNeverPanics ==
    result.call = "Collect" =>
        /\ ~result.panic
        /\ (~HasItems(input) \/ SomeItemMalformed(input)) => result.recs = <<>>

(***************************************************************************)
(* Properties of the running exporter, checked under Spec and FairSpec.    *)
(***************************************************************************)
\* a Collect call of the HddCollector is in flight: its socket read has
\* started and it has not returned
InCollect(s) == HddTurn(s) /\ hpc[s] \in {"read", "parse"}

\* the gauge values a scrape holds are entries of the vectors
SnapshotSound(s) ==
    \A c \in Cats : \A t \in DOMAIN snap[s][c] :
        t \in DOMAIN cache[c] /\ snap[s][c][t] \in Values

\* C1 as stated: when Init failed (h.conn was never set), every scrape
\* still completes with the gauge values and no disk-temperature record,
\* without a panic, a crash or a failed request.
C1_ScrapesSurviveFailedInit ==
    (mainPc = "serving" /\ conn = "nil") =>
        /\ ~crashed
        /\ \A s \in Handlers :
              st[s] # "failed" /\ emitted[s] = <<>> /\ SnapshotSound(s)

\* C3 as stated: at most one Collect call of the HddCollector is in flight
\* in every reachable state.
C3_CollectSerialized ==
    Cardinality({s \in Handlers : InCollect(s)}) <= 1

\* C4 as stated: the records a Collect call sends are those parsed from the
\* bytes that call received; in particular a call that received nothing
\* sends nothing.
C4_RecordsFromThisCall ==
    \A s \in Handlers :
        emitted[s] # <<>> => emitted[s] = CollectOutcome(got[s]).recs

\* C5 as stated: a Collect call never blocks for good: once the peer has
\* closed the stream, or has gone idle after what it wrote with the
\* connection left open, a call waiting in its read can still take a step.
C5_CollectNeverStuck ==
    \A s \in Handlers :
        (/\ ~crashed
         /\ HddTurn(s) /\ hpc[s] = "read"
         /\ peer = "closed" \/ (peer = "idle" /\ nsent > 0))
            => ENABLED HandlerStep(s)

\* C10 as stated: two scrapes in flight together, with the poller writing,
\* both complete successfully and hold only values of the gauge vectors.
C10_ConcurrentScrapesComplete ==
    (st[1] # "idle" /\ st[2] # "idle") =>
        /\ ~crashed
        /\ \A s \in Handlers : st[s] # "failed" /\ SnapshotSound(s)

(***************************************************************************)
(* Properties of the gauge vectors and the poller.                         *)
(***************************************************************************)
\* the positions in the history of the readings of the feature with label
\* tuple t
ReadingsOf(t) == {i \in 1..Len(polled) : LabelTuple(polled[i].f) = t}

\* the value of the latest reading of t
LastReading(t) ==
    polled[CHOOSE i \in ReadingsOf(t) : \A j \in ReadingsOf(t) : j <= i].v

\* handler s collects gauge vector c in this step
Collects(s, c) == c \in pend[s] /\ c \notin pend'[s]

\* C11: overwrite is last-write-wins per label tuple: whenever a scrape
\* collects a gauge vector, every tuple the poller has written to that
\* vector so far is in what the scrape gets, once, with the value of the
\* latest write, however many writes with other values came before.
C11_LastWriteWins ==
    [][\A s \in Handlers, c \in Cats :
          Collects(s, c) =>
              \A i \in 1..Len(FeatureList) :
                  (Classify(FeatureList[i].Name) = c /\ ReadingsOf(LabelTuple(i)) # {})
                      => /\ LabelTuple(i) \in DOMAIN snap'[s][c]
                         /\ snap'[s][c][LabelTuple(i)] = LastReading(LabelTuple(i))]_vars

\* the poller has written fan1 in two cycles, first 1 and then 2, and a
\* scrape has collected the fan vector with the single entry fan1 = 2
C11_Witness ==
    /\ Len(polled) = 2
    /\ polled[1] = [f |-> 1, v |-> 1, cycle |-> 1]
    /\ polled[2] = [f |-> 1, v |-> 2, cycle |-> 2]
    /\ st[1] = "active"
    /\ "fan" \notin pend[1]
    /\ DOMAIN snap[1]["fan"] = {LabelTuple(1)}
    /\ snap[1]["fan"][LabelTuple(1)] = 2

\* C12: classification by name prefix: a reading of a feature whose name
\* starts with "fan" changes the fan vector only, "temp" the temperature
\* vector only, "in" the voltage vector only, "power" the power vector
\* only, and there the feature's tuple gets the value read; a reading of a
\* feature with none of these prefixes leaves the four vectors unchanged.
C12_ClassifiedByPrefix ==
    [][polled' # polled =>
          LET r == polled'[Len(polled')]
              name == FeatureList[r.f].Name
              t == LabelTuple(r.f)
              Only(c) ==
                  /\ t \in DOMAIN cache'[c]
                  /\ cache'[c][t] = r.v
                  /\ \A d \in Cats \ {c} : cache'[d] = cache[d]
              isFan == HasPrefix(name, <<"f", "a", "n">>)
              isTemp == HasPrefix(name, <<"t", "e", "m", "p">>)
              isIn == HasPrefix(name, <<"i", "n">>)
              isPower == HasPrefix(name, <<"p", "o", "w", "e", "r">>)
          IN  /\ isFan => Only("fan")
              /\ isTemp => Only("temperature")
              /\ isIn => Only("voltage")
              /\ isPower => Only("power")
              /\ ~(isFan \/ isTemp \/ isIn \/ isPower) => cache' = cache]_vars

\* beep_enable has been read in two cycles and no vector has an entry
C12_Witness ==
    /\ Len(polled) = 2
    /\ FeatureList[polled[1].f].Label = "beep_enable"
    /\ FeatureList[polled[2].f].Label = "beep_enable"
    /\ cache = EmptyCaches

\* C13: the gauge vectors are changed by the poller only: a step that
\* changes a vector is the poller's write of a reading and changes nothing
\* of any scrape, and no step of a scrape (start, gauge snapshot, socket
\* read, parse, send, panic, response) changes a vector.
C13_OnlyPollerWrites ==
    [][/\ cache' # cache =>
             /\ pollPc = "features"
             /\ Len(polled') = Len(polled) + 1
             /\ scrapeVars' = scrapeVars
       /\ (scrapeVars' # scrapeVars \/ buf' # buf \/ crashed' # crashed)
             => cache' = cache]_vars

\* with the temperature vector filled, a scrape has taken it, read the
\* socket, sent a disk record and answered, and the vector is as it was
C13_Witness ==
    /\ DOMAIN cache["temperature"] = {LabelTuple(2)}
    /\ ncycles = MaxCycles
    /\ st[1] = "ok"
    /\ emitted[1] # <<>>
    /\ snap[1]["temperature"] = cache["temperature"]

\* C14: the gauge snapshot never waits for the poller: a scrape with gauge
\* vectors left to collect can collect the next one in every state of the
\* poller, with no step of the poller in between, whether the poller sleeps,
\* is in the middle of a cycle or has not finished its first one.
C14_SnapshotNeverWaits ==
    \A s \in Handlers :
        (Running /\ st[s] = "active" /\ pend[s] # {})
            => ENABLED (\E c \in Cats : CollectGauge(s, c))

\* a scrape has collected the four gauge vectors of a machine that has a
\* sensor feature while the poller has not yet enumerated anything
C14_Witness ==
    /\ hw # {}
    /\ pollPc = "chips"
    /\ ncycles = 0
    /\ polled = <<>>
    /\ st[1] = "active"
    /\ pend[1] = {}
    /\ snap[1] = EmptyCaches

\* C15: the connection is made once, at startup: h.conn is assigned by
\* main's call of Init only and no step while serving changes it (no
\* Collect, whether it sends, fails in its read or fails in its parse,
\* closes or replaces it); and there is no reconnection: once Init has
\* failed, or the stream has ended or broken, no live connection comes
\* back and nothing more is written for the collector to read.
C15_ConnectionSetOnce ==
    [][/\ conn' # conn => (mainPc = "start" /\ mainPc' = "serving")
       /\ mainPc = "serving" => conn' = conn
       /\ (mainPc = "serving" /\ peer # "open") => (peer' # "open" /\ nsent' = nsent)]_vars

\* the connection has broken with bytes under way: one scrape has come
\* back without a record and another is reading on the same connection
C15_Witness ==
    /\ conn = "tcp"
    /\ peer \in {"reset", "closed"}
    /\ nsent > 0
    /\ st[1] = "ok"
    /\ got[1] = <<>>
    /\ emitted[1] = <<>>
    /\ buf = <<>>
    /\ st[2] = "active"
    /\ hpc[2] = "read"

IsPrefix(a, b) == Len(a) <= Len(b) /\ SubSeq(b, 1, Len(a)) = a

\* C16 as stated: the read buffer is never cleared or cut: in every step
\* the buffer before is a prefix of the buffer after, so the text a Collect
\* parses holds everything received since startup.
C16_BufferOnlyGrows ==
    [][IsPrefix(buf, buf')]_vars

\* C17 as stated: the poller never terminates: once main has started it,
\* in every state it is somewhere in its loop and (short of the bound on
\* cycles) its next step can be taken.
C17_PollerNeverStops ==
    mainPc = "serving" =>
        /\ pollPc \in {"chips", "features", "sleep"}
        /\ ncycles < MaxCycles => ENABLED PollStep

\* C20: the entries of each gauge vector only grow: no step, of the poller
\* or of a scrape, removes a label tuple from a vector; an entry keeps its
\* value until the poller reads that feature again; and a scrape that
\* collects a vector gets every entry it has, so a feature that was seen
\* once and is enumerated no more stays exposed with its last value.
C20_EntriesOnlyGrow ==
    [][/\ \A c \in Cats :
             /\ DOMAIN cache[c] \subseteq DOMAIN cache'[c]
             /\ \A t \in DOMAIN cache[c] :
                    cache'[c][t] # cache[c][t] =>
                        /\ Len(polled') = Len(polled) + 1
                        /\ LabelTuple(polled'[Len(polled')].f) = t
       /\ \A s \in Handlers, c \in Cats :
             Collects(s, c) =>
                 \A t \in DOMAIN cache[c] :
                     t \in DOMAIN snap'[s][c] /\ snap'[s][c][t] = cache[c][t]]_vars

\* fan1 was read in the first cycle, the second cycle is over without it,
\* and a scrape has collected the fan vector with the entry of fan1
C20_Witness ==
    /\ Len(polled) = 1
    /\ polled[1].f = 1
    /\ polled[1].cycle = 1
    /\ ncycles = MaxCycles
    /\ pollPc = "sleep"
    /\ st[1] = "active"
    /\ "fan" \notin pend[1]
    /\ DOMAIN snap[1]["fan"] = {LabelTuple(1)}
    /\ snap[1]["fan"][LabelTuple(1)] = polled[1].v

(***************************************************************************)
(* More properties of the parser, checked under SpecParse.                 *)
(***************************************************************************)
\* a well-formed envelope: opening and closing delimiter around items that
\* all parse
WellFormed(e) ==
    /\ HasItems(e)
    /\ e[Len(e)] = "|"
    /\ LET items == ItemsOf(e)
       IN  \A i \in 1..Len(items) : parseHddTemp(items[i]).err = "none"

\* the places where text can be cut in two well-formed envelopes
Cuts(text) ==
    {k \in 2..(Len(text) - 2) :
        /\ text[k] = "|"
        /\ text[k + 1] = "|"
        /\ WellFormed(SubSeq(text, 1, k))
        /\ WellFormed(SubSeq(text, k + 1, Len(text)))}

\* C18: when the text is two well-formed envelopes back to back, of n and
\* of m records, parseHddTemps succeeds and returns n + m records, those of
\* the first envelope followed by those of the second, and a Collect on a
\* buffer with that text sends them all.
C18_TwoEnvelopesParseAsOne ==
    result.call \in {"parseHddTemps", "Collect"} =>
        \A k \in Cuts(input) :
            LET first == parseHddTemps(SubSeq(input, 1, k)).recs
                second == parseHddTemps(SubSeq(input, k + 1, Len(input))).recs
            IN  /\ ~result.panic
                /\ result.err = "none"
                /\ result.recs = first \o second
                /\ Len(result.recs) = Len(first) + Len(second)

\* Collect has sent three records on a buffer that holds an envelope of two
\* records followed by an envelope of one
C18_Witness ==
    /\ result.call = "Collect"
    /\ Len(result.recs) = 3
    /\ \E k \in Cuts(input) :
          /\ Len(parseHddTemps(SubSeq(input, 1, k)).recs) = 2
          /\ Len(parseHddTemps(SubSeq(input, k + 1, Len(input))).recs) = 1

\* characters to put in the last place: the delimiter, the unit, a digit
\* and a letter that is none of these
Chars == {"|", "C", "4", "x"}

\* text with its last character replaced by c
WithLast(text, c) == SubSeq(text, 1, Len(text) - 1) \o <<c>>

\* C19: parseHddTemps drops the last character unchecked: on every input of
\* length at least 2 that begins with '|', the result (a panic, the kind of
\* error, the records) is the result on the input with its last character
\* replaced by another character.
C19_LastCharIgnored ==
    (result.call = "parseHddTemps" /\ Len(input) >= 2 /\ input[1] = "|") =>
        \A c \in Chars :
            LET r == parseHddTemps(WithLast(input, c))
            IN  /\ r.panic = result.panic
                /\ r.err = result.err
                /\ r.recs = result.recs

\* an envelope of one item closed by "x" instead of "|" has been parsed
\* into its record
C19_Witness ==
    /\ result.call = "parseHddTemps"
    /\ input = Bar \o Item(<<"a">>, <<"i">>, <<"4", "5">>, <<"C">>) \o <<"x">>
    /\ result.err = "none"
    /\ result.recs = <<[Device |-> <<"a">>, Id |-> <<"i">>,
                        TemperatureCelsius |-> <<45, 0>>]>>

====
